---- MODULE Spec2Model ----
(***************************************************************************)
(* A model of jetson_jtop_helper.get_jetson_info: one invocation of the    *)
(* snapshot collector against the external jtop monitoring service.        *)
(*                                                                         *)
(* Python values are represented as follows.                               *)
(*   dict            a function whose DOMAIN is the set of keys present    *)
(*   list / tuple    a sequence                                            *)
(*   str             a TLA+ string; the command line argument, which the   *)
(*                   code parses, is a sequence of one-character strings   *)
(*   float           an integer number of thousandths                      *)
(*   object / None   a record with a field truthy (None is [truthy|->F])   *)
(* The jtop service is external: every call into it either returns or      *)
(* raises the backend's JtopException or some other exception.             *)
(***************************************************************************)
EXTENDS Integers, Sequences, FiniteSets, TLC

\* Longest set_nvpmodel argument enumerated over Alphabet.
MaxLen == 2

\* Characters of the enumerated set_nvpmodel arguments: a digit, a sign,
\* white space and a letter.
Alphabet == {"2", "-", " ", "Q"}

Digits == {"0", "1", "2", "3", "4", "5", "6", "7", "8", "9"}

DigitVal(c) ==
    CASE c = "0" -> 0 [] c = "1" -> 1 [] c = "2" -> 2 [] c = "3" -> 3
      [] c = "4" -> 4 [] c = "5" -> 5 [] c = "6" -> 6 [] c = "7" -> 7
      [] c = "8" -> 8 [] c = "9" -> 9

Whitespace == {" "}

\* The default of the keyword argument set_nvpmodel (no --set-nvpmodel given).
None == <<"None">>

\* The absent object (Python None where the code tests truthiness).
PyNone == [truthy |-> FALSE]

EmptyDict == [k \in {} |-> 0]

(***************************************************************************)
(* dict helpers                                                            *)
(***************************************************************************)
\* d.get(k, default)
Get(d, k, default) == IF k \in DOMAIN d THEN d[k] ELSE default

\* d[k] = v
Put(d, k, v) == [x \in DOMAIN d \cup {k} |-> IF x = k THEN v ELSE d[x]]

\* d without the key k
Remove(d, k) == [x \in DOMAIN d \ {k} |-> d[x]]

\* d without the (nested) key named by path
RECURSIVE OmitPath(_, _)
OmitPath(d, path) ==
    IF Len(path) = 1
    THEN Remove(d, path[1])
    ELSE [d EXCEPT ![path[1]] = OmitPath(d[path[1]], Tail(path))]

(***************************************************************************)
(* str and int                                                             *)
(***************************************************************************)
\* The characters of a sequence as one string.
RECURSIVE Join(_)
Join(s) == IF s = <<>> THEN "" ELSE Head(s) \o Join(Tail(s))

RECURSIVE LStrip(_)
LStrip(s) ==
    IF s # <<>> /\ Head(s) \in Whitespace THEN LStrip(Tail(s)) ELSE s

RECURSIVE RStrip(_)
RStrip(s) ==
    IF s # <<>> /\ s[Len(s)] \in Whitespace
    THEN RStrip(SubSeq(s, 1, Len(s) - 1))
    ELSE s

Strip(s) == RStrip(LStrip(s))

Unsigned(s) ==
    IF s # <<>> /\ Head(s) \in {"-", "+"} THEN Tail(s) ELSE s

RECURSIVE DigitsValue(_)
DigitsValue(s) ==
    IF s = <<>> THEN 0
    ELSE 10 * DigitsValue(SubSeq(s, 1, Len(s) - 1)) + DigitVal(s[Len(s)])

\* int(s) returns (does not raise ValueError): optional white space around
\* an optional sign and at least one decimal digit.
IsIntLiteral(s) ==
    LET u == Unsigned(Strip(s))
    IN  u # <<>> /\ \A i \in 1..Len(u) : u[i] \in Digits

\* int(s), where it returns
IntValue(s) ==
    LET t == Strip(s)
        v == DigitsValue(Unsigned(t))
    IN  IF Head(t) = "-" THEN 0 - v ELSE v

RECURSIVE NatStr(_)
NatStr(n) ==
    LET d == CASE n % 10 = 0 -> "0" [] n % 10 = 1 -> "1" [] n % 10 = 2 -> "2"
               [] n % 10 = 3 -> "3" [] n % 10 = 4 -> "4" [] n % 10 = 5 -> "5"
               [] n % 10 = 6 -> "6" [] n % 10 = 7 -> "7" [] n % 10 = 8 -> "8"
               [] n % 10 = 9 -> "9"
    IN  IF n < 10 THEN d ELSE NatStr(n \div 10) \o d

\* str(n) of an int
IntStr(n) == IF n < 0 THEN "-" \o NatStr(0 - n) ELSE NatStr(n)

\* Line 26 left out: the argument is never converted.
ParseKeepsString(s) == [type |-> "str", int |-> 0, str |-> Join(s)]

\* The value of `val` after lines 25-28: the parsed int, or the argument.
IntVal(n) == [type |-> "int", int |-> n, str |-> ""]
StrVal(s) == [type |-> "str", int |-> 0, str |-> Join(s)]
ParseNvpmodel(s) == IF IsIntLiteral(s) THEN IntVal(IntValue(s)) ELSE StrVal(s)

\* f"{val}"
Format(val) == IF val.type = "int" THEN IntStr(val.int) ELSE val.str

\* round(x, 1): x in thousandths, the result in tenths (ties to even).
Round1(x) ==
    LET q == x \div 100
        r == x % 100
    IN  IF r > 50 \/ (r = 50 /\ q % 2 = 1) THEN q + 1 ELSE q

(***************************************************************************)
(* Category extraction (lines 38-143), as functions of what the backend    *)
(* accessors returned.                                                     *)
(***************************************************************************)
Hardware(board) == Get(board, "hardware", EmptyDict)

BoardCategory(board) ==
    [model   |-> Get(Hardware(board), "Model", "Unknown"),
     serial  |-> Get(Hardware(board), "Serial Number", "Unknown"),
     l4t     |-> Get(Hardware(board), "L4T", "Unknown"),
     jetpack |-> Get(Hardware(board), "Jetpack", "Unknown"),
     module  |-> Get(Hardware(board), "Module", "Unknown")]

LibrariesCategory(board) == Get(board, "libraries", EmptyDict)

NvpmodelCategory(nvpmodel) ==
    [name   |-> IF nvpmodel.truthy THEN nvpmodel.name ELSE "Unknown",
     id     |-> IF nvpmodel.truthy THEN nvpmodel.id ELSE -1,
     models |-> IF nvpmodel.truthy THEN nvpmodel.models ELSE <<>>]

ClocksCategory(jetson_clocks) ==
    IF jetson_clocks.truthy
    THEN [active |-> jetson_clocks.truthy,
          status |-> jetson_clocks.status,
          boot   |-> jetson_clocks.boot]
    ELSE [active |-> FALSE, status |-> "inactive", boot |-> FALSE]

CpuCategory(cpu_info) ==
    LET total == Get(cpu_info, "total", EmptyDict)
        cores == Get(cpu_info, "cpu", <<>>)
    IN  [total_user   |-> Round1(Get(total, "user", 0)),
         total_system |-> Round1(Get(total, "system", 0)),
         total_idle   |-> Round1(Get(total, "idle", 0)),
         online_cores |->
             Cardinality({i \in 1..Len(cores) : Get(cores[i], "online", FALSE)})]

GpuCategory(gpu_info) ==
    [load      |-> Get(Get(gpu_info, "status", EmptyDict), "load", 0),
     curr_freq |-> Get(Get(gpu_info, "freq", EmptyDict), "cur", 0),
     max_freq  |-> Get(Get(gpu_info, "freq", EmptyDict), "max", 0)]

EnginesCategory(engines) ==
    [group \in DOMAIN engines |->
        [engine_name \in DOMAIN engines[group] |->
            [online |-> Get(engines[group][engine_name], "online", FALSE),
             cur    |-> Get(engines[group][engine_name], "cur", 0)]]]

RamCategory(memory) ==
    [total |-> Get(Get(memory, "RAM", EmptyDict), "tot", 0),
     used  |-> Get(Get(memory, "RAM", EmptyDict), "used", 0),
     free  |-> Get(Get(memory, "RAM", EmptyDict), "free", 0)]

SwapCategory(memory) ==
    [total |-> Get(Get(memory, "SWAP", EmptyDict), "tot", 0),
     used  |-> Get(Get(memory, "SWAP", EmptyDict), "used", 0)]

\* The sensors the comprehension of line 111 keeps.
OnlineSensors(temp_info) ==
    {k \in DOMAIN temp_info : Get(temp_info[k], "online", FALSE)}

\* v['temp'] of line 111 raises KeyError.
TemperatureKeyError(temp_info) ==
    \E k \in OnlineSensors(temp_info) : "temp" \notin DOMAIN temp_info[k]

TemperatureCategory(temp_info) ==
    [k \in OnlineSensors(temp_info) |-> Round1(temp_info[k]["temp"])]

\* isinstance(fan_info.get('speed'), list)
SpeedIsList(fan_info) == "speed" \in DOMAIN fan_info /\ fan_info["speed"].isList

\* fan_info.get('speed', [0])[0] of line 115 raises IndexError.
FanIndexError(fan_info) == SpeedIsList(fan_info) /\ fan_info["speed"].list = <<>>

FanSpeed(fan_info) ==
    IF SpeedIsList(fan_info)
    THEN fan_info["speed"].list[1]
    ELSE IF "speed" \in DOMAIN fan_info THEN fan_info["speed"].scalar ELSE 0

FanProfile(fan_info) ==
    LET fan_profile == Get(fan_info, "profile", "Unknown")
    IN  IF fan_profile = "Unknown"
        THEN Get(fan_info, "governor", Get(fan_info, "control", "Unknown"))
        ELSE fan_profile

FanCategory(fan_info) ==
    [speed |-> FanSpeed(fan_info), profile |-> FanProfile(fan_info)]

RECURSIVE ProcessesCategory(_)
ProcessesCategory(processes) ==
    IF processes = <<>> THEN <<>>
    ELSE LET p == Head(processes)
         IN  (IF Len(p) >= 10
              THEN <<[pid |-> p[1], user |-> p[2], gpu_mem |-> p[9], name |-> p[10]]>>
              ELSE <<>>) \o ProcessesCategory(Tail(processes))

DiskCategory(disk_info) ==
    [total     |-> Get(disk_info, "total", 0),
     used      |-> Get(disk_info, "used", 0),
     available |-> Get(disk_info, "available", 0)]

(***************************************************************************)
(* The backend's reported data: what the accessors of the handle return.   *)
(***************************************************************************)
\* A backend that reports every field the code reads.
FullBackend ==
    [board |->
        [hardware |-> ("Model" :> "Jetson Orin Nano" @@ "Serial Number" :> "1420"
                       @@ "L4T" :> "35.4.1" @@ "Jetpack" :> "5.1.2"
                       @@ "Module" :> "p3767"),
         libraries |-> ("CUDA" :> "11.4.315")],
     nvpmodel |-> [truthy |-> TRUE, name |-> "15W", id |-> 0,
                   models |-> <<"15W", "7W">>],
     jetson_clocks |-> [truthy |-> TRUE, status |-> "running", boot |-> FALSE],
     cpu |-> [total |-> [user |-> 34567, system |-> 1250, idle |-> 64183],
              cpu |-> <<[online |-> TRUE], [online |-> FALSE]>>],
     gpu |-> [status |-> [load |-> 12], freq |-> [cur |-> 306, max |-> 624]],
     engine |-> [DLA |-> [DLA0 |-> [online |-> TRUE, cur |-> 1]]],
     memory |-> [RAM |-> [tot |-> 8, used |-> 3, free |-> 5],
                 SWAP |-> [tot |-> 4, used |-> 1]],
     temperature |-> [CPU |-> [online |-> TRUE, temp |-> 45678],
                      GPU |-> [online |-> FALSE, temp |-> -256000]],
     fan |-> [speed |-> [isList |-> TRUE, list |-> <<42, 43>>],
              profile |-> "quiet", governor |-> "cont", control |-> "close_loop"],
     processes |-> << <<1001, "root", "I", "G", 20, "S", 5, 100, 64, "python3">>,
                      <<1002, "root", "I", "G", 20, "S", 5, 100, 64>> >>,
     disk |-> [total |-> 64, used |-> 20, available |-> 44]]

\* Every field and sub-field a category read looks up, as the path to it.
OmitPaths ==
    { <<"board", "hardware">>, <<"board", "hardware", "Model">>,
      <<"board", "hardware", "Serial Number">>, <<"board", "hardware", "L4T">>,
      <<"board", "hardware", "Jetpack">>, <<"board", "hardware", "Module">>,
      <<"board", "libraries">>,
      <<"cpu", "total">>, <<"cpu", "total", "user">>, <<"cpu", "total", "system">>,
      <<"cpu", "total", "idle">>, <<"cpu", "cpu">>,
      <<"gpu", "status">>, <<"gpu", "status", "load">>, <<"gpu", "freq">>,
      <<"gpu", "freq", "cur">>, <<"gpu", "freq", "max">>,
      <<"engine", "DLA">>, <<"engine", "DLA", "DLA0">>,
      <<"engine", "DLA", "DLA0", "online">>, <<"engine", "DLA", "DLA0", "cur">>,
      <<"memory", "RAM">>, <<"memory", "RAM", "tot">>, <<"memory", "RAM", "used">>,
      <<"memory", "RAM", "free">>, <<"memory", "SWAP">>, <<"memory", "SWAP", "tot">>,
      <<"memory", "SWAP", "used">>,
      <<"temperature", "CPU">>, <<"temperature", "CPU", "online">>,
      <<"temperature", "CPU", "temp">>, <<"temperature", "GPU", "temp">>,
      <<"fan", "speed">>, <<"fan", "profile">>, <<"fan", "governor">>,
      <<"fan", "control">>,
      <<"disk", "total">>, <<"disk", "used">>, <<"disk", "available">> }

\* Backends that report a field in another of the shapes the code handles.
ShapeVariants ==
    { [FullBackend EXCEPT !.nvpmodel = PyNone],
      [FullBackend EXCEPT !.jetson_clocks = PyNone],
      [FullBackend EXCEPT !.cpu.cpu = <<[online |-> TRUE], EmptyDict>>],
      [FullBackend EXCEPT !.fan.speed = [isList |-> FALSE, scalar |-> 42]],
      [FullBackend EXCEPT !.fan.speed = [isList |-> TRUE, list |-> <<>>]],
      [FullBackend EXCEPT !.fan.profile = "Unknown"],
      [FullBackend EXCEPT !.fan = [profile |-> "Unknown", control |-> "close_loop"]],
      [FullBackend EXCEPT !.processes = <<>>],
      [FullBackend EXCEPT !.engine = EmptyDict],
      [FullBackend EXCEPT !.temperature = EmptyDict] }

Backends ==
    {FullBackend} \cup {OmitPath(FullBackend, path) : path \in OmitPaths}
        \cup ShapeVariants

\* The set_nvpmodel arguments: None, the two of the documentation, and every
\* string over Alphabet of at most MaxLen characters.
NvpmodelExamples == {None, <<"2">>, <<"Q", "u", "i", "e", "t">>}

AlphabetStrings == UNION {[1..n -> Alphabet] : n \in 0..MaxLen}

\* The category keys of a snapshot, and the keys of the action outcomes.
CategoryKeys ==
    {"board", "libraries", "nvpmodel", "jetson_clocks", "cpu", "gpu", "engines",
     "ram", "swap", "temperature", "fan", "processes", "disk"}

ActionKeys ==
    {"clocks_action", "clocks_action_error", "nvpmodel_action",
     "nvpmodel_action_error"}

(***************************************************************************)
(* State of one call of get_jetson_info(enable_clocks, set_nvpmodel).      *)
(***************************************************************************)
VARIABLES
    pc,             \* the statement to execute next
    enable_clocks,  \* argument
    set_nvpmodel,   \* argument
    backend,        \* what the service reports through the handle
    jetson,         \* TRUE while the handle of the with block is held
    data,           \* the dict built by the function
    val,            \* the local of lines 25-32
    result,         \* the returned value, once pc = "done"
    exc,            \* the exception that reached the outer handlers, or "none"
    calls           \* the calls made into jtop and time, in order

vars ==
    <<pc, enable_clocks, set_nvpmodel, backend, jetson, data, val, result, exc,
      calls>>

\* How a call into the backend can end.
Outcomes == {"ok", "JtopException", "Exception"}

\* How the readiness predicate jetson.ok() can end.
OkOutcomes == {"ready", "notready", "JtopException", "Exception"}

NoArg == [type |-> "none", int |-> 0, str |-> ""]
BoolArg == [type |-> "bool", int |-> 1, str |-> ""]

Call(op, arg, out) == [op |-> op, arg |-> arg, out |-> out]

\* str(e)
Message(kind) ==
    CASE kind = "JtopException" -> "jtop service error"
      [] kind = "KeyError" -> "'temp'"
      [] kind = "IndexError" -> "list index out of range"
      [] OTHER -> "boom"

\* Line 147 returning the dict built so far with the error added to it.
NotOkWithData ==
    Put(data, "error", "jtop is not ok (service might not be running)")

\* The value returned by the else branch of line 147.
NotOkResult == [error |-> "jtop is not ok (service might not be running)"]

\* The handlers adding the error to the dict built so far.
HandlerKeepsData(kind) ==
    IF kind = "JtopException"
    THEN Put(data, "error", "JtopException: " \o Message(kind))
    ELSE Put(data, "error", "Unexpected error: " \o Message(kind))

\* Lines 148-149 left out: one handler for every exception.
HandlerGeneric(kind) == [error |-> "Unexpected error: " \o Message(kind)]

\* The value returned by the handlers of lines 148-151.
Handler(kind) ==
    IF kind = "JtopException"
    THEN [error |-> "JtopException: " \o Message(kind)]
    ELSE [error |-> "Unexpected error: " \o Message(kind)]

Init ==
    /\ pc = "jtop"
    /\ enable_clocks \in BOOLEAN
    /\ \/ backend \in Backends /\ set_nvpmodel \in NvpmodelExamples
       \/ backend = FullBackend /\ set_nvpmodel \in AlphabetStrings
    /\ jetson = FALSE
    /\ data = EmptyDict
    /\ val = NoArg
    /\ result = EmptyDict
    /\ exc = "none"
    /\ calls = <<>>

\* Execution goes on inside the with block.
Step(log, next, d) ==
    /\ pc' = next
    /\ calls' = log
    /\ data' = d
    /\ UNCHANGED <<enable_clocks, set_nvpmodel, backend, jetson, val, result, exc>>

\* The handle opened without the with statement: nothing closes it.
LeaveHeld(log, value, kind) ==
    /\ pc' = "done"
    /\ calls' = log
    /\ result' = value
    /\ exc' = kind
    /\ UNCHANGED <<enable_clocks, set_nvpmodel, backend, jetson, data, val>>

\* The with block is left, by return or by an exception: jtop.__exit__
\* closes the handle, then the function returns value.
Leave(log, value, kind) ==
    /\ pc' = "done"
    /\ jetson' = FALSE
    /\ calls' = Append(log, Call("__exit__", NoArg, "ok"))
    /\ result' = value
    /\ exc' = kind
    /\ UNCHANGED <<enable_clocks, set_nvpmodel, backend, data, val>>

\* An exception leaves the with block and reaches lines 148-151.
Raise(log, kind) == Leave(log, Handler(kind), kind)

\* Line 14 left out: the clocks are set whether requested or not.
AfterOk1Always == "clocks_on"

\* Where execution goes after line 20, and after line 13 when ready.
AfterClocks == IF set_nvpmodel # None THEN "nvpmodel" ELSE "ok2"
AfterOk1 == IF enable_clocks THEN "clocks_on" ELSE AfterClocks

\* Line 11: jtop() and __enter__.
Acquire ==
    /\ pc = "jtop"
    /\ \E out \in Outcomes :
        /\ calls' = Append(calls, Call("jtop", NoArg, out))
        /\ IF out = "ok"
           THEN /\ jetson' = TRUE
                /\ pc' = "ok1"
                /\ UNCHANGED <<result, exc>>
           ELSE /\ pc' = "done"
                /\ result' = Handler(out)
                /\ exc' = out
                /\ UNCHANGED jetson
        /\ UNCHANGED <<enable_clocks, set_nvpmodel, backend, data, val>>

\* Line 13.
CheckOk1 ==
    /\ pc = "ok1"
    /\ \E out \in OkOutcomes :
        LET log == Append(calls, Call("ok", NoArg, out))
        IN  CASE out = "ready" -> Step(log, AfterOk1, data)
              [] out = "notready" -> Step(log, "ok2", data)
              [] OTHER -> Raise(log, out)

\* Line 18 moved out of the try block: the confirmation is recorded too.
RecordClocksErrorAndAction(d, msg) ==
    Put(Put(d, "clocks_action_error", msg),
        "clocks_action", "Enabled jetson_clocks and set to boot")

RecordClocksError(d, msg) == Put(d, "clocks_action_error", msg)

RecordClocks(d) == Put(d, "clocks_action", "Enabled jetson_clocks and set to boot")

\* Line 16, and lines 19-20 when it raises.
SetClocks ==
    /\ pc = "clocks_on"
    /\ \E out \in Outcomes :
        LET log == Append(calls, Call("jetson_clocks=", BoolArg, out))
        IN  IF out = "ok"
            THEN Step(log, "clocks_boot", data)
            ELSE Step(log, AfterClocks, RecordClocksError(data, Message(out)))

\* Lines 17-18, and lines 19-20 when line 17 raises.
SetClocksBoot ==
    /\ pc = "clocks_boot"
    /\ \E out \in Outcomes :
        LET log == Append(calls, Call("jetson_clocks.boot=", BoolArg, out))
        IN  IF out = "ok"
            THEN Step(log, AfterClocks, RecordClocks(data))
            ELSE Step(log, AfterClocks, RecordClocksError(data, Message(out)))

\* Lines 31-32 in a finally clause: they run when line 30 raised too.
AfterNvpmodelErrorSleeps == "sleep"

\* Where execution goes when line 30 raises.
AfterNvpmodelError == "ok2"

\* Lines 25-30, and lines 33-34 when line 30 raises.
SetNvpmodel ==
    /\ pc = "nvpmodel"
    /\ val' = ParseNvpmodel(set_nvpmodel)
    /\ \E out \in Outcomes :
        /\ calls' = Append(calls, Call("nvpmodel=", val', out))
        /\ IF out = "ok"
           THEN /\ pc' = "sleep"
                /\ UNCHANGED data
           ELSE /\ pc' = AfterNvpmodelError
                /\ data' = Put(data, "nvpmodel_action_error", Message(out))
    /\ UNCHANGED <<enable_clocks, set_nvpmodel, backend, jetson, result, exc>>

\* Lines 31-32.
Sleep ==
    /\ pc = "sleep"
    /\ Step(Append(calls, Call("sleep", IntVal(1), "ok")), "ok2",
            Put(data, "nvpmodel_action", "Set nvpmodel to " \o Format(val)))

\* Line 36, and lines 146-147 when not ready.
CheckOk2 ==
    /\ pc = "ok2"
    /\ \E out \in OkOutcomes :
        LET log == Append(calls, Call("ok", NoArg, out))
        IN  CASE out = "ready" -> Step(log, "board", data)
              [] out = "notready" -> Leave(log, NotOkResult, "none")
              [] OTHER -> Raise(log, out)

\* One category read: the accessor is called; the extraction may raise
\* codeError itself; otherwise data becomes d.
Read(label, accessor, codeError, next, d) ==
    /\ pc = label
    /\ \E out \in Outcomes :
        LET log == Append(calls, Call(accessor, NoArg, out))
        IN  IF out # "ok" THEN Raise(log, out)
            ELSE IF codeError # "none" THEN Raise(log, codeError)
            ELSE Step(log, next, d)

\* Lines 38-48.
ReadBoard ==
    Read("board", "board", "none", "nvpmodel_info",
         Put(Put(data, "board", BoardCategory(backend.board)),
             "libraries", LibrariesCategory(backend.board)))

\* Lines 51-55.
ReadNvpmodel ==
    Read("nvpmodel_info", "nvpmodel", "none", "jetson_clocks",
         Put(data, "nvpmodel", NvpmodelCategory(backend.nvpmodel)))

\* Lines 58-65.
ReadClocks ==
    Read("jetson_clocks", "jetson_clocks", "none", "cpu",
         Put(data, "jetson_clocks", ClocksCategory(backend.jetson_clocks)))

\* Lines 68-74.
ReadCpu ==
    Read("cpu", "cpu", "none", "gpu", Put(data, "cpu", CpuCategory(backend.cpu)))

\* Lines 77-82.
ReadGpu ==
    Read("gpu", "gpu", "none", "engines", Put(data, "gpu", GpuCategory(backend.gpu)))

\* Lines 85-93.
ReadEngines ==
    Read("engines", "engine", "none", "memory",
         Put(data, "engines", EnginesCategory(backend.engine)))

\* Lines 96-107.
ReadMemory ==
    Read("memory", "memory", "none", "temperature",
         Put(Put(data, "ram", RamCategory(backend.memory)),
             "swap", SwapCategory(backend.memory)))

\* Lines 110-111.
ReadTemperature ==
    Read("temperature", "temperature",
         IF TemperatureKeyError(backend.temperature) THEN "KeyError" ELSE "none",
         "fan",
         Put(data, "temperature", TemperatureCategory(backend.temperature)))

\* Lines 114-123.
ReadFan ==
    Read("fan", "fan",
         IF FanIndexError(backend.fan) THEN "IndexError" ELSE "none",
         "processes",
         Put(data, "fan", FanCategory(backend.fan)))

\* Lines 126-135.
ReadProcesses ==
    Read("processes", "processes", "none", "disk",
         Put(data, "processes", ProcessesCategory(backend.processes)))

\* Lines 138-143.
ReadDisk ==
    Read("disk", "disk", "none", "return",
         Put(data, "disk", DiskCategory(backend.disk)))

\* Line 145.
Return ==
    /\ pc = "return"
    /\ Leave(calls, data, "none")

Next ==
    \/ Acquire
    \/ CheckOk1
    \/ SetClocks
    \/ SetClocksBoot
    \/ SetNvpmodel
    \/ Sleep
    \/ CheckOk2
    \/ ReadBoard
    \/ ReadNvpmodel
    \/ ReadClocks
    \/ ReadCpu
    \/ ReadGpu
    \/ ReadEngines
    \/ ReadMemory
    \/ ReadTemperature
    \/ ReadFan
    \/ ReadProcesses
    \/ ReadDisk
    \/ Return

Spec == Init /\ [][Next]_vars

(***************************************************************************)
(* Vocabulary of the properties.                                           *)
(***************************************************************************)
Done == pc = "done"

ClocksOps == {"jetson_clocks=", "jetson_clocks.boot="}
ManagementOps == ClocksOps \cup {"nvpmodel="}
ReadOps ==
    {"board", "nvpmodel", "jetson_clocks", "cpu", "gpu", "engine", "memory",
     "temperature", "fan", "processes", "disk"}

IsOkCall(c) == c.op = "ok"
OkCalls == SelectSeq(calls, IsOkCall)
FirstOk == IF Len(OkCalls) >= 1 THEN OkCalls[1].out ELSE "none"
SecondOk == IF Len(OkCalls) >= 2 THEN OkCalls[2].out ELSE "none"

\* The positions in calls of the calls of op, and of those that ended out.
Positions(op) == {i \in 1..Len(calls) : calls[i].op = op}
PositionsOut(op, out) == {i \in Positions(op) : calls[i].out = out}
ReadPositions == {i \in 1..Len(calls) : calls[i].op \in ReadOps}

\* The position of the call whose exception reached the outer handlers.
RaisePosition ==
    IF calls[Len(calls)].op = "__exit__" THEN Len(calls) - 1 ELSE Len(calls)

\* The operation that raised the exception that reached the outer handlers.
RaisedIn == IF exc = "none" THEN "none" ELSE calls[RaisePosition].op

IsSnapshot(r) == CategoryKeys \subseteq DOMAIN r /\ "error" \notin DOMAIN r
IsErrorOnly(r) == DOMAIN r = {"error"}

JtopError == [error |-> "JtopException: jtop service error"]
UnexpectedError(kind) == [error |-> "Unexpected error: " \o Message(kind)]

ClocksSucceeded == PositionsOut("jetson_clocks.boot=", "ok") # {}
ClocksFailed == \E i \in 1..Len(calls) : calls[i].op \in ClocksOps /\ calls[i].out # "ok"
NvpmodelSucceeded == PositionsOut("nvpmodel=", "ok") # {}
NvpmodelFailed == \E i \in Positions("nvpmodel=") : calls[i].out # "ok"

Quiet == <<"Q", "u", "i", "e", "t">>

\* s is white space, an optional sign, one or more digits, white space.
MatchesIntGrammar(s) ==
    \E lo, hi \in 1..Len(s) :
        /\ lo <= hi
        /\ \A k \in lo..hi : s[k] \in Digits
        /\ \A k \in (hi + 1)..Len(s) : s[k] \in Whitespace
        /\ \E w \in {lo - 1, lo - 2} :
              /\ w >= 0
              /\ \A k \in 1..w : s[k] \in Whitespace
              /\ w = lo - 2 => s[lo - 1] \in {"-", "+"}

(***************************************************************************)
(* C1. If jetson.ok() returns not-ready at the initial check, the function *)
(* returns exactly the "jtop is not ok" mapping, whatever ok() returns     *)
(* later. Stated for the runs in which no exception reaches the handlers.  *)
(* The code does not return at line 13: it checks again at line 36.        *)
(***************************************************************************)
C1_NotReadyAtFirstCheckIsNotOk ==
    (Done /\ FirstOk = "notready" /\ exc = "none") => result = NotOkResult

(***************************************************************************)
(* C2. Every returned value is either a full snapshot (the 13 category     *)
(* keys, no error key) or a mapping whose only key is error, never both;   *)
(* when a category read throws after entries were recorded the result is   *)
(* the single-key error mapping: prefixed "Unexpected error: " or, for the *)
(* backend's JtopException, "JtopException: ".                             *)
(***************************************************************************)
C2_AllOrNothing ==
    Done =>
        /\ IsSnapshot(result) \/ IsErrorOnly(result)
        /\ ~(IsSnapshot(result) /\ IsErrorOnly(result))
        /\ IsSnapshot(result) => DOMAIN result \subseteq CategoryKeys \cup ActionKeys
        /\ RaisedIn \in ReadOps =>
              /\ IsErrorOnly(result)
              /\ exc = "JtopException" => result = JtopError
              /\ exc # "JtopException" => result = UnexpectedError(exc)

\* A category read threw after categories and an action result were recorded.
C2_Witness ==
    /\ Done
    /\ RaisedIn \in ReadOps
    /\ DOMAIN data \cap CategoryKeys # {}
    /\ DOMAIN data \cap ActionKeys # {}

\* C2 as stated: a category read that throws always gives "Unexpected error: ".
C2_ReadThrowIsUnexpected ==
    Done =>
        /\ IsSnapshot(result) \/ IsErrorOnly(result)
        /\ RaisedIn \in ReadOps => result = UnexpectedError(exc)

(***************************************************************************)
(* C3. When the handle is ready, no action is requested and no read        *)
(* throws, the keys of the returned mapping are exactly the 13 category    *)
(* keys.                                                                   *)
(***************************************************************************)
C3_NoActionNoActionKeys ==
    (Done /\ ~enable_clocks /\ set_nvpmodel = None /\ SecondOk = "ready"
          /\ exc = "none")
        => DOMAIN result = CategoryKeys

C3_Witness ==
    /\ Done /\ ~enable_clocks /\ set_nvpmodel = None
    /\ FirstOk = "ready" /\ SecondOk = "ready" /\ exc = "none"
    /\ ReadPositions # {}

(***************************************************************************)
(* C4. With enable_clocks and the handle ready at line 13, the outcome of  *)
(* the clocks action is recorded in data exclusively (clocks_action when   *)
(* both assignments succeed, clocks_action_error when either raises any    *)
(* exception) and is not fatal: execution goes on to the power-model       *)
(* action and the re-check. The returned value carries the entry when it   *)
(* is a snapshot, and neither key when it is an error mapping.             *)
(***************************************************************************)
C4_ClocksOutcomeRecorded ==
    /\ ClocksSucceeded =>
          /\ "clocks_action" \in DOMAIN data
          /\ data["clocks_action"] = "Enabled jetson_clocks and set to boot"
          /\ "clocks_action_error" \notin DOMAIN data
    /\ ClocksFailed =>
          /\ "clocks_action_error" \in DOMAIN data
          /\ "clocks_action" \notin DOMAIN data
    /\ (ClocksSucceeded \/ ClocksFailed) =>
          /\ enable_clocks /\ FirstOk = "ready"
          /\ RaisedIn \notin ClocksOps
          /\ pc \notin {"jtop", "ok1", "clocks_on", "clocks_boot"}
          /\ set_nvpmodel # None =>
                pc = "nvpmodel" \/ Positions("nvpmodel=") # {}
    /\ (Done /\ IsSnapshot(result)) =>
          /\ ClocksSucceeded <=> "clocks_action" \in DOMAIN result
          /\ ClocksFailed <=> "clocks_action_error" \in DOMAIN result
    /\ (Done /\ ~IsSnapshot(result)) =>
          DOMAIN result \cap {"clocks_action", "clocks_action_error"} = {}

\* The first assignment succeeded, the second raised the backend's exception,
\* and a snapshot was returned.
C4_Witness ==
    /\ Done /\ IsSnapshot(result)
    /\ PositionsOut("jetson_clocks=", "ok") # {}
    /\ PositionsOut("jetson_clocks.boot=", "JtopException") # {}
    /\ "clocks_action_error" \in DOMAIN result

\* C4 as stated: the returned value always carries the outcome.
C4_OutputAlwaysHasOutcome ==
    (Done /\ enable_clocks /\ FirstOk = "ready" /\ SecondOk = "ready") =>
        /\ ClocksSucceeded =>
              /\ "clocks_action" \in DOMAIN result
              /\ "clocks_action_error" \notin DOMAIN result
        /\ ClocksFailed =>
              /\ "clocks_action_error" \in DOMAIN result
              /\ "clocks_action" \notin DOMAIN result

(***************************************************************************)
(* C5. A JtopException raised by the handle acquisition, a readiness check *)
(* or a category read is returned as {error: "JtopException: <message>"}   *)
(* and any other exception raised there as {error: "Unexpected error:      *)
(* <message>"}. An exception of either kind raised by a management action  *)
(* is caught at lines 19 and 33: it is recorded under clocks_action_error  *)
(* or nvpmodel_action_error, execution goes on, and it is not the result.  *)
(***************************************************************************)
C5_ErrorKindByOrigin ==
    /\ \A i \in 1..Len(calls) :
          calls[i].out \in {"JtopException", "Exception"} =>
              IF calls[i].op \in ManagementOps
              THEN /\ exc = "none" \/ i < RaisePosition
                   /\ DOMAIN data \cap {"clocks_action_error", "nvpmodel_action_error"} # {}
              ELSE /\ Done
                   /\ i = RaisePosition
                   /\ exc = calls[i].out
    /\ Done =>
          /\ exc = "JtopException" => result = JtopError
          /\ exc \notin {"none", "JtopException"} => result = UnexpectedError(exc)
          /\ exc = "none" => result \notin {JtopError, UnexpectedError("Exception")}

\* A management action raised JtopException, and later a category read did.
C5_Witness ==
    /\ Done
    /\ exc = "JtopException"
    /\ RaisedIn \in ReadOps
    /\ \E i \in 1..Len(calls) :
          calls[i].op \in ManagementOps /\ calls[i].out = "JtopException"

\* The calls that raised.
RaisingCalls ==
    {i \in 1..Len(calls) : calls[i].out \in {"JtopException", "Exception"}}

\* C5 as stated: an exception raised in any phase is the result, prefixed by
\* its kind. Stated for the runs in which exactly one call raised, the backend
\* reports every field and the re-check did not report not-ready.
C5_ExceptionAnywhereIsResult ==
    (Done /\ Cardinality(RaisingCalls) = 1 /\ SecondOk # "notready"
          /\ backend = FullBackend) =>
        \A i \in RaisingCalls :
            /\ calls[i].out = "JtopException" => result = JtopError
            /\ calls[i].out = "Exception" => result = UnexpectedError("Exception")

(***************************************************************************)
(* C6. The absence of a sub-field in the backend's data never aborts the   *)
(* snapshot: with the handle ready at line 36 and no accessor raising, the *)
(* result is a full snapshot. Lines 111 and 115 index without a default.   *)
(***************************************************************************)
C6_AbsenceNeverAborts ==
    (Done /\ SecondOk = "ready"
          /\ \A i \in ReadPositions : calls[i].out = "ok")
        => IsSnapshot(result)

(***************************************************************************)
(* C7. The handle, once acquired, is released on every exit path: when the *)
(* function has returned no handle is held, and jtop.__exit__ was the last *)
(* call, made exactly once.                                                *)
(***************************************************************************)
C7_HandleReleased ==
    /\ Done => ~jetson
    /\ (Done /\ PositionsOut("jtop", "ok") # {}) =>
          /\ Positions("__exit__") = {Len(calls)}
    /\ ~Done => Positions("__exit__") = {}
    /\ jetson <=> (PositionsOut("jtop", "ok") # {} /\ ~Done)

\* The handle was acquired and an exception ended the call.
C7_Witness ==
    /\ Done
    /\ PositionsOut("jtop", "ok") # {}
    /\ exc # "none"
    /\ ~jetson

(***************************************************************************)
(* C8. With a power model requested and the handle ready at line 13, the   *)
(* value assigned to jetson.nvpmodel is the int parsed from the argument   *)
(* when it is an integer literal ("2" gives 2) and the unchanged string    *)
(* otherwise ("Quiet" gives "Quiet"). The outcome is recorded in data      *)
(* exclusively (nvpmodel_action after a successful assignment,             *)
(* nvpmodel_action_error after a failed one) and execution goes on to the  *)
(* re-check. The returned value carries the entry when it is a snapshot,   *)
(* and neither key when it is an error mapping.                            *)
(***************************************************************************)
C8_NvpmodelValueAndOutcome ==
    /\ \A i \in Positions("nvpmodel=") :
          /\ set_nvpmodel # None /\ FirstOk = "ready"
          /\ set_nvpmodel = <<"2">> =>
                calls[i].arg = [type |-> "int", int |-> 2, str |-> ""]
          /\ set_nvpmodel = <<"-", "2">> =>
                calls[i].arg = [type |-> "int", int |-> -2, str |-> ""]
          /\ set_nvpmodel = Quiet =>
                calls[i].arg = [type |-> "str", int |-> 0, str |-> "Quiet"]
          /\ calls[i].arg.type \in {"int", "str"}
          /\ calls[i].arg.type = "int" <=>
                MatchesIntGrammar(set_nvpmodel)
          /\ calls[i].arg.type = "str" => calls[i].arg.str = Join(set_nvpmodel)
          /\ RaisedIn # "nvpmodel="
          /\ pc \notin {"jtop", "ok1", "clocks_on", "clocks_boot", "nvpmodel"}
    /\ NvpmodelSucceeded =>
          /\ pc # "sleep" =>
                /\ "nvpmodel_action" \in DOMAIN data
                /\ set_nvpmodel = <<"2">> =>
                      data["nvpmodel_action"] = "Set nvpmodel to 2"
                /\ set_nvpmodel = Quiet =>
                      data["nvpmodel_action"] = "Set nvpmodel to Quiet"
          /\ "nvpmodel_action_error" \notin DOMAIN data
    /\ NvpmodelFailed =>
          /\ "nvpmodel_action_error" \in DOMAIN data
          /\ "nvpmodel_action" \notin DOMAIN data
    /\ (Done /\ IsSnapshot(result)) =>
          /\ NvpmodelSucceeded <=> "nvpmodel_action" \in DOMAIN result
          /\ NvpmodelFailed <=> "nvpmodel_action_error" \in DOMAIN result
    /\ (Done /\ ~IsSnapshot(result)) =>
          DOMAIN result \cap {"nvpmodel_action", "nvpmodel_action_error"} = {}

\* "2" was assigned as the int 2 and a snapshot carrying the outcome returned.
C8_Witness ==
    /\ Done /\ IsSnapshot(result)
    /\ set_nvpmodel = <<"2">>
    /\ NvpmodelSucceeded
    /\ result["nvpmodel_action"] = "Set nvpmodel to 2"

\* C8 as stated: the returned value always carries the outcome.
C8_OutputAlwaysHasOutcome ==
    (Done /\ set_nvpmodel # None /\ FirstOk = "ready" /\ SecondOk = "ready") =>
        /\ NvpmodelSucceeded =>
              /\ "nvpmodel_action" \in DOMAIN result
              /\ "nvpmodel_action_error" \notin DOMAIN result
        /\ NvpmodelFailed =>
              /\ "nvpmodel_action_error" \in DOMAIN result
              /\ "nvpmodel_action" \notin DOMAIN result

(***************************************************************************)
(* C9. If the handle is ready at line 13 and not ready at line 36, the     *)
(* function returns exactly the "jtop is not ok" mapping: no category was  *)
(* read and the recorded action entries are not in the result, although    *)
(* the actions were applied.                                               *)
(***************************************************************************)
C9_NotReadyAfterActions ==
    (Done /\ FirstOk = "ready" /\ SecondOk = "notready") =>
        /\ result = [error |-> "jtop is not ok (service might not be running)"]
        /\ ReadPositions = {}
        /\ enable_clocks => DOMAIN data \cap {"clocks_action", "clocks_action_error"} # {}
        /\ set_nvpmodel # None =>
              DOMAIN data \cap {"nvpmodel_action", "nvpmodel_action_error"} # {}

\* Both actions were applied and recorded, then the re-check was not ready.
C9_Witness ==
    /\ Done /\ FirstOk = "ready" /\ SecondOk = "notready"
    /\ ClocksSucceeded /\ NvpmodelSucceeded
    /\ {"clocks_action", "nvpmodel_action"} \subseteq DOMAIN data

(***************************************************************************)
(* C10. Each management write (clocks on, clocks boot persistence, power   *)
(* model) is made at most once, only when requested, only after a          *)
(* readiness check returned ready, the clocks writes before the power      *)
(* model write, and all of them before the first category read; the sleep  *)
(* happens at most once, directly after an assignment that did not raise.  *)
(***************************************************************************)
C10_ManagementWritesOrdered ==
    /\ \A op \in ManagementOps \cup {"sleep"} : Cardinality(Positions(op)) <= 1
    /\ \A i \in 1..Len(calls) :
          /\ calls[i].op \in ClocksOps => enable_clocks
          /\ calls[i].op = "nvpmodel=" => set_nvpmodel # None
          /\ calls[i].op \in ManagementOps =>
                /\ \E j \in 1..(i - 1) : calls[j].op = "ok" /\ calls[j].out = "ready"
                /\ \A j \in ReadPositions : i < j
          /\ calls[i].op = "jetson_clocks.boot=" =>
                /\ i > 1
                /\ calls[i - 1] = Call("jetson_clocks=", BoolArg, "ok")
          /\ calls[i].op \in ClocksOps =>
                \A j \in Positions("nvpmodel=") : i < j
          /\ calls[i].op = "sleep" =>
                /\ i > 1
                /\ calls[i - 1].op = "nvpmodel="
                /\ calls[i - 1].out = "ok"
                /\ calls[i].arg.int = 1

\* All three writes and the sleep happened, then the categories were read.
C10_Witness ==
    /\ Done
    /\ \A op \in ManagementOps \cup {"sleep"} : Positions(op) # {}
    /\ ReadPositions # {}

====
